---- MODULE Spec2Model ----
(***************************************************************************)
(* Echo World (src/Echo-World.py): the maze generator, the farthest-cell   *)
(* search and the sonar-ping visibility field, as state machines.          *)
(*                                                                         *)
(* Cells are pairs <<r, c>>.  A grid maps every cell to TRUE (wall) or     *)
(* FALSE (passage), as the source's grid[r][c] does.                       *)
(*                                                                         *)
(* SpecMaze runs generate_maze one loop iteration at a time, SpecBfs runs  *)
(* farthest_floor_from one dequeue at a time on arbitrary grids, and Spec  *)
(* runs the frame loop of EchoWorld.run on generated mazes, together with  *)
(* the scripted end-to-end scenario on an all-passable 5 x 5 grid.         *)
(* SpecPulse follows one pulse frame by frame.  SpecShadow runs the frame  *)
(* loop of Shadow Runner (src/shadow-runner.py) and SpecSwitch the one of  *)
(* Color Switch Maze (src/Python/Color-switch-maze.py).                    *)
(***************************************************************************)
EXTENDS Integers, Sequences, FiniteSets, TLC

VARIABLES gen,             \* generate_maze's locals: rows, cols, grid, stack
          bfs,             \* farthest_floor_from's locals: q, seen, far
          maze, rows, cols, player, exit, visible_until, pings,
          last_ping_time, pings_used, win,    \* EchoWorld's fields
          now,             \* time.time(), in ticks
          pc,              \* the position in run's loop
          script,          \* the key presses a scripted player still replays
          runner,          \* shadow-runner.py's globals
          switcher         \* Color-switch-maze.py's globals

vars == <<gen, bfs, maze, rows, cols, player, exit, visible_until, pings,
          last_ping_time, pings_used, win, now, pc, script, runner, switcher>>

gameVars == <<maze, rows, cols, player, exit, visible_until, pings,
              last_ping_time, pings_used, win, now, pc, script>>

--------------------------------------------------------------------------
(* Bounds of the model *)

\* generate_maze is run for every 1 <= rows <= MaxGenRows, 1 <= cols <= MaxGenCols
MaxGenRows == 6
MaxGenCols == 6
\* farthest_floor_from is run on every grid with cols * rows <= MaxBfsCells
MaxBfsCells == 9
\* the game is played on every maze of at most MaxRows x MaxCols cells
MaxRows == 3
MaxCols == 3
\* the clock reading at construction and the last clock reading explored,
\* in ticks of 1/FPS seconds
StartTime == 1
MaxTime == 109
\* Shadow Runner: the keys are sampled freely in the first SteerFrames frames
\* and held from then on, for MaxFrames frames
SteerFrames == 2
MaxFrames == 40
\* Color Switch Maze: the player is followed while no more than SwitchMargin
\* pixels of its rectangle's extent lie beyond an edge of the screen
SwitchMargin == 4

--------------------------------------------------------------------------
(* Grids *)

Cells(rws, cls) == (0 .. rws - 1) \X (0 .. cls - 1)

InBounds(rws, cls, r, c) == 0 <= r /\ r < rws /\ 0 <= c /\ c < cls

Floor(g) == {cell \in DOMAIN g : ~g[cell]}

Dims(maxCells) ==
    {d \in (1 .. maxCells) \X (1 .. maxCells) : d[1] * d[2] <= maxCells}

\* the passable cells of g adjacent to a (4-directional)
FloorNbrs(g, a) ==
    {b \in {<<a[1] - 1, a[2]>>, <<a[1] + 1, a[2]>>,
            <<a[1], a[2] - 1>>, <<a[1], a[2] + 1>>} :
        b \in DOMAIN g /\ ~g[b]}

\* the passable cells reachable from `seen`, `frontier` being the cells of
\* `seen` not expanded yet
RECURSIVE ReachFrom(_, _, _)
ReachFrom(g, seen, frontier) ==
    LET more == (UNION {FloorNbrs(g, a) : a \in frontier}) \ seen
    IN  IF more = {} THEN seen ELSE ReachFrom(g, seen \cup more, more)

Reach(g, a) == ReachFrom(g, {a}, {a})

\* the adjacent pairs of passable cells, each once: <<a, b>> with b right of or
\* below a
FloorEdges(g) ==
    {e \in Floor(g) \X Floor(g) :
        \/ e[2] = <<e[1][1] + 1, e[1][2]>>
        \/ e[2] = <<e[1][1], e[1][2] + 1>>}

--------------------------------------------------------------------------
(* generate_maze: the recursive backtracker, one loop iteration at a time *)

\* range(0, n, 2)
EvenIndices(n) == {i \in 0 .. n - 1 : i % 2 = 0}

AllWalls(cls, rws) == [cell \in Cells(rws, cls) |-> TRUE]

CarveDirs == {<<-2, 0>>, <<2, 0>>, <<0, -2>>, <<0, 2>>}

\* the directions whose cell two steps away is in bounds, carved or not
CarveNeighborsAny(g, rws, cls, r, c) ==
    {d \in CarveDirs : InBounds(rws, cls, r + d[1], c + d[2])}

\* the directions whose cell two steps away is in bounds and still a wall
CarveNeighbors(g, rws, cls, r, c) ==
    {d \in CarveDirs : /\ InBounds(rws, cls, r + d[1], c + d[2])
                       /\ g[<<r + d[1], c + d[2]>>]}

\* the state after lines 43-50, for every choice of the start cell
GenStart(cls, rws) ==
    {[grid  |-> [AllWalls(cls, rws) EXCEPT ![<<sr, sc>>] = FALSE],
      stack |-> <<<<sr, sc>>>>] :
        sr \in EvenIndices(rws), sc \in EvenIndices(cls)}

\* a carve that forgets to open the wall cell between the two cells
GenCarveNoWall(g, stk, r, c, d) ==
    [grid  |-> [g EXCEPT ![<<r + d[1], c + d[2]>>] = FALSE],
     stack |-> Append(stk, <<r + d[1], c + d[2]>>)]

\* lines 60-65: open the wall between and the chosen cell, push the cell
GenCarve(g, stk, r, c, d) ==
    [grid  |-> [g EXCEPT ![<<r + (d[1] \div 2), c + (d[2] \div 2)>>] = FALSE,
                         ![<<r + d[1], c + d[2]>>] = FALSE],
     stack |-> Append(stk, <<r + d[1], c + d[2]>>)]

\* line 67
GenPop(g, stk) == [grid |-> g, stack |-> SubSeq(stk, 1, Len(stk) - 1)]

\* one iteration of the while loop (lines 53-67), for every random choice
GenSucc(st, rws, cls) ==
    LET top == st.stack[Len(st.stack)]
        nb  == CarveNeighbors(st.grid, rws, cls, top[1], top[2])
    IN  IF nb # {}
        THEN {GenCarve(st.grid, st.stack, top[1], top[2], d) : d \in nb}
        ELSE {GenPop(st.grid, st.stack)}

RECURSIVE GenResults(_, _, _)
GenResults(st, rws, cls) ==
    IF st.stack = <<>>
    THEN {st.grid}
    ELSE UNION {GenResults(s2, rws, cls) : s2 \in GenSucc(st, rws, cls)}

\* every grid generate_maze(cols, rows) can return
generate_maze(cls, rws) ==
    UNION {GenResults(st, rws, cls) : st \in GenStart(cls, rws)}

GenTop == gen.stack[Len(gen.stack)]

\* lines 59-65
Carve ==
    /\ gen.pc = "loop"
    /\ gen.stack # <<>>
    /\ \E s2 \in GenSucc(gen, gen.rows, gen.cols) :
          /\ Len(s2.stack) > Len(gen.stack)
          /\ gen' = [gen EXCEPT !.grid = s2.grid, !.stack = s2.stack]
    /\ UNCHANGED <<bfs, gameVars, runner, switcher>>

\* lines 66-67
Backtrack ==
    /\ gen.pc = "loop"
    /\ gen.stack # <<>>
    /\ \E s2 \in GenSucc(gen, gen.rows, gen.cols) :
          /\ Len(s2.stack) < Len(gen.stack)
          /\ gen' = [gen EXCEPT !.grid = s2.grid, !.stack = s2.stack]
    /\ UNCHANGED <<bfs, gameVars, runner, switcher>>

\* line 68
GenReturn ==
    /\ gen.pc = "loop"
    /\ gen.stack = <<>>
    /\ gen' = [gen EXCEPT !.pc = "done"]
    /\ UNCHANGED <<bfs, gameVars, runner, switcher>>

--------------------------------------------------------------------------
(* farthest_floor_from: the breadth-first search, one dequeue at a time *)

BfsDirs == <<<<-1, 0>>, <<1, 0>>, <<0, -1>>, <<0, 1>>>>

\* lines 135-139 for the directions i .. 4, in the source's order
RECURSIVE BfsExpand(_, _, _, _, _, _, _)
BfsExpand(m, rws, cls, st, r, c, i) ==
    IF i > Len(BfsDirs)
    THEN st
    ELSE LET nr == r + BfsDirs[i][1]
             nc == c + BfsDirs[i][2]
             d  == st.d
         IN  IF /\ InBounds(rws, cls, nr, nc)
                /\ ~m[<<nr, nc>>]
                /\ <<nr, nc>> \notin st.seen
             THEN BfsExpand(m, rws, cls,
                            [st EXCEPT !.seen = @ \cup {<<nr, nc>>},
                                       !.q = Append(@, <<nr, nc, d + 1>>)],
                            r, c, i + 1)
             ELSE BfsExpand(m, rws, cls, st, r, c, i + 1)

\* a search that replaces far on d >= far[2]: the last cell at the maximum depth
BfsStepLast(m, rws, cls, st) ==
    LET h == Head(st.q)
        far2 == IF h[3] >= st.far[3] THEN h ELSE st.far
        e == BfsExpand(m, rws, cls,
                       [q |-> Tail(st.q), seen |-> st.seen, d |-> h[3]],
                       h[1], h[2], 1)
    IN  [q |-> e.q, seen |-> e.seen, far |-> far2]

\* one iteration of the while loop (lines 132-139)
BfsStep(m, rws, cls, st) ==
    LET h == Head(st.q)
        far2 == IF h[3] > st.far[3] THEN h ELSE st.far
        e == BfsExpand(m, rws, cls,
                       [q |-> Tail(st.q), seen |-> st.seen, d |-> h[3]],
                       h[1], h[2], 1)
    IN  [q |-> e.q, seen |-> e.seen, far |-> far2]

\* lines 127-130
BfsStart(sr, sc) ==
    [q |-> <<<<sr, sc, 0>>>>, seen |-> {<<sr, sc>>}, far |-> <<sr, sc, 0>>]

RECURSIVE BfsRun(_, _, _, _)
BfsRun(m, rws, cls, st) ==
    IF st.q = <<>> THEN st.far ELSE BfsRun(m, rws, cls, BfsStep(m, rws, cls, st))

\* line 140: the cell, and FarDepth its depth
FarOf(m, rws, cls, sr, sc) == BfsRun(m, rws, cls, BfsStart(sr, sc))

\* the result with row and column swapped
farthest_floor_swapped(m, rws, cls, sr, sc) ==
    LET far == FarOf(m, rws, cls, sr, sc) IN <<far[2], far[1]>>

farthest_floor_from(m, rws, cls, sr, sc) ==
    LET far == FarOf(m, rws, cls, sr, sc) IN <<far[1], far[2]>>

--------------------------------------------------------------------------
(* Configuration (lines 18-28).  Time is counted in ticks of 1/FPS seconds,
   lengths in pixels, radii in tenths of a pixel. *)

CELL == 24
MAZE_COLS == 25
HUD_HEIGHT == 40
FPS == 60
PING_COOLDOWN_MS == 600
PING_DURATION_MS == 1000
PING_SPEED == 450
\* reset's last_ping_time = -9999.0 seconds
NEVER_PINGED == 9999

Max(a, b) == IF a >= b THEN a ELSE b
Min(a, b) == IF a <= b THEN a ELSE b
Abs(x) == IF x < 0 THEN -x ELSE x

\* a duration given in milliseconds, in ticks
Ticks(ms) == (ms * FPS) \div 1000

PING_COOLDOWN == Ticks(PING_COOLDOWN_MS)
PING_DURATION == Ticks(PING_DURATION_MS)

SCREEN_W(cls) == CELL * cls
SCREEN_H(rws) == CELL * rws + HUD_HEIGHT

\* max(SCREEN_W, SCREEN_H) * 1.1, in tenths of a pixel
PING_MAX_RADIUS10(cls, rws) == Max(SCREEN_W(cls), SCREEN_H(rws)) * 11

\* cell_center(c, r): <<x, y>> in pixels
cell_center(c, r) == <<c * CELL + CELL \div 2, r * CELL + CELL \div 2>>

\* the frame periods the clock advances by between two frames
Deltas == {PING_COOLDOWN \div 2, PING_COOLDOWN}

\* pygame.key.get_pressed(), reduced to the four directions
Keys == {"UP", "DOWN", "LEFT", "RIGHT"}

--------------------------------------------------------------------------
(* EchoWorld *)

\* the maze sizes played, <<rows, cols>>, standing for <<MAZE_ROWS, MAZE_COLS>>
GameDims == (1 .. MaxRows) \X (1 .. MaxCols)

\* lines 103-111: every maze, player start and exit reset can choose
Placements ==
    UNION {UNION {{[rows |-> d[1], cols |-> d[2], maze |-> m, player |-> p,
                    exit |-> farthest_floor_from(m, d[1], d[2], p[1], p[2])] :
                       p \in Floor(m)} :
                  m \in generate_maze(d[2], d[1])} :
           d \in GameDims}

NoReveal(rws, cls) == [cell \in Cells(rws, cls) |-> 0]

\* a regenerate that keeps the active pulses and the reveal timestamps
reset_keeping_reveals ==
    /\ \E pl \in Placements :
          /\ pl.rows = rows /\ pl.cols = cols
          /\ maze' = pl.maze
          /\ player' = pl.player
          /\ exit' = pl.exit
    /\ last_ping_time' = -(NEVER_PINGED * FPS)
    /\ pings_used' = 0
    /\ win' = FALSE
    /\ UNCHANGED <<rows, cols, visible_until, pings>>

\* lines 101-123 (start_time, read by the HUD alone, is left out)
reset ==
    /\ \E pl \in Placements :
          /\ pl.rows = rows /\ pl.cols = cols
          /\ maze' = pl.maze
          /\ player' = pl.player
          /\ exit' = pl.exit
    /\ visible_until' = NoReveal(rows, cols)
    /\ pings' = <<>>
    /\ last_ping_time' = -(NEVER_PINGED * FPS)
    /\ pings_used' = 0
    /\ win' = FALSE
    /\ UNCHANGED <<rows, cols>>

\* an emit with no rate limit
InCooldownNever(t, last) == FALSE

\* line 144: the request is inside the cooldown window
InCooldown(t, last) == t - last < PING_COOLDOWN

\* an emit that forgets the usage counter
emit_ping_uncounted ==
    IF InCooldown(now, last_ping_time)
    THEN UNCHANGED <<last_ping_time, pings_used, pings>>
    ELSE /\ last_ping_time' = now
         /\ pings_used' = pings_used
         /\ LET ctr == cell_center(player[2], player[1])
            IN  pings' = Append(pings, [cx |-> ctr[1], cy |-> ctr[2], t |-> now])

\* lines 142-151
emit_ping ==
    IF InCooldown(now, last_ping_time)
    THEN UNCHANGED <<last_ping_time, pings_used, pings>>
    ELSE /\ last_ping_time' = now
         /\ pings_used' = pings_used + 1
         /\ LET ctr == cell_center(player[2], player[1])
            IN  pings' = Append(pings, [cx |-> ctr[1], cy |-> ctr[2], t |-> now])

\* a direction that keeps both axes when both are pressed
MoveDirDiagonal(keys) ==
    LET dr == IF "UP" \in keys THEN -1 ELSE IF "DOWN" \in keys THEN 1 ELSE 0
        dc == IF "LEFT" \in keys THEN -1 ELSE IF "RIGHT" \in keys THEN 1 ELSE 0
    IN  <<dr, dc>>

\* lines 155-168: the direction <<dr, dc>> of the attempted move
MoveDir(keys) ==
    LET dr == IF "UP" \in keys THEN -1 ELSE IF "DOWN" \in keys THEN 1 ELSE 0
        dc == IF "LEFT" \in keys THEN -1 ELSE IF "RIGHT" \in keys THEN 1 ELSE 0
    IN  IF dr # 0 /\ dc # 0 THEN <<dr, 0>> ELSE <<dr, dc>>

\* a move that forgets the wall test
MoveTargetThroughWalls(m, rws, cls, p, keys) ==
    LET d  == MoveDir(keys)
        nr == p[1] + d[1]
        nc == p[2] + d[2]
    IN  IF d # <<0, 0>> /\ InBounds(rws, cls, nr, nc) THEN <<nr, nc>> ELSE p

\* lines 170-173: the player cell after the input sample
MoveTarget(m, rws, cls, p, keys) ==
    LET d  == MoveDir(keys)
        nr == p[1] + d[1]
        nc == p[2] + d[2]
    IN  IF /\ d # <<0, 0>>
           /\ InBounds(rws, cls, nr, nc)
           /\ ~m[<<nr, nc>>]
        THEN <<nr, nc>>
        ELSE p

\* lines 153-173
handle_input(keys) ==
    player' = MoveTarget(maze, rows, cols, player, keys)

\* a pulse dropped as soon as its reveal ends, without the ring's fade tail
AliveWhileRevealing(age, cls, rws) == age <= PING_DURATION

\* line 181: age <= PING_DURATION + PING_MAX_RADIUS / PING_SPEED
Alive(age, cls, rws) ==
    age * PING_SPEED * 10 <=
        PING_DURATION * PING_SPEED * 10 + PING_MAX_RADIUS10(cls, rws) * FPS

\* lines 188-193: the ring's radius at this age, in tenths of a pixel
Radius10(age, cls, rws) ==
    Min((age * PING_SPEED * 10) \div FPS, PING_MAX_RADIUS10(cls, rws))

\* line 203: dist(cell centre, ping origin) <= radius + CELL * 0.7
InRing(cell, ping, radius10) ==
    LET ctr == cell_center(cell[2], cell[1])
        dx  == ctr[1] - ping.cx
        dy  == ctr[2] - ping.cy
        lim == radius10 + CELL * 7
    IN  100 * (dx * dx + dy * dy) <= lim * lim

\* lines 195-200: the cells of the bounding box
BoxCells(ping, radius10, rws, cls) ==
    LET min_c == Max(0, (ping.cx * 10 - radius10) \div (CELL * 10))
        max_c == Min(cls - 1, (ping.cx * 10 + radius10) \div (CELL * 10))
        min_r == Max(0, (ping.cy * 10 - radius10) \div (CELL * 10))
        max_r == Min(rws - 1, (ping.cy * 10 + radius10) \div (CELL * 10))
    IN  (min_r .. max_r) \X (min_c .. max_c)

\* lines 199-203: the cells one ping stamps at time t
Stamped(m, rws, cls, ping, t) ==
    LET radius10 == Radius10(t - ping.t, cls, rws)
    IN  IF radius10 < 0
        THEN {}
        ELSE {cell \in BoxCells(ping, radius10, rws, cls) :
                ~m[cell] /\ InRing(cell, ping, radius10)}

\* a reveal that ends at the emission time: PING_DURATION forgotten
RevealNoDuration(old, ping) == Max(old, ping.t)

\* line 205
Reveal(old, ping) == Max(old, ping.t + PING_DURATION)

\* lines 186-205, for the pings i .. Len(ps) in order
RECURSIVE StampAll(_, _, _, _, _, _, _)
StampAll(vu, m, rws, cls, ps, t, i) ==
    IF i > Len(ps)
    THEN vu
    ELSE LET hit == Stamped(m, rws, cls, ps[i], t)
         IN  StampAll([cell \in DOMAIN vu |->
                          IF cell \in hit THEN Reveal(vu[cell], ps[i]) ELSE vu[cell]],
                      m, rws, cls, ps, t, i + 1)

\* a visibility field rebuilt from nothing on every update
NewVisibleFresh(vu, m, rws, cls, ps, t) ==
    StampAll([cell \in DOMAIN vu |-> 0], m, rws, cls, ps, t, 1)

\* lines 185-205: visible_until after the surviving pings have stamped it
NewVisible(vu, m, rws, cls, ps, t) == StampAll(vu, m, rws, cls, ps, t, 1)

\* lines 178-183
Prune(ps, t, cls, rws) ==
    SelectSeq(ps, LAMBDA ping : Alive(t - ping.t, cls, rws))

\* a win flag that follows the player instead of latching
WinCheckLive(w, p, e) == p = e

\* lines 208-209
WinCheck(w, p, e) == IF p = e THEN TRUE ELSE w

\* lines 175-209
update ==
    /\ pings' = Prune(pings, now, cols, rows)
    /\ visible_until' = NewVisible(visible_until, maze, rows, cols, pings', now)
    /\ win' = WinCheck(win, player, exit)

\* draw's test (lines 234, 241, 247, 298) and the spec's isVisible
IsVisible(cell, t) == visible_until[cell] >= t

\* lines 246-249: draw paints the exit's rectangle in the main view
DrawsExitRect == IsVisible(exit, now)

\* lines 306-313: draw paints the exit's dot in the mini-map, in every frame
DrawsExitDot == TRUE

\* draw (lines 223-315) puts an exit marker somewhere on the screen
DrawsExitMarker == DrawsExitRect \/ DrawsExitDot

--------------------------------------------------------------------------
(* One frame of run (lines 319-324): clock.tick, handle_events, handle_input,
   update.  draw changes no state. *)

\* no script: the keys of every frame are free
NoScript == [replay |-> FALSE, keys |-> <<>>]

\* the state after __init__ (lines 92-99), for every maze size
InitGame ==
    /\ \E pl \in Placements :
          /\ rows = pl.rows
          /\ cols = pl.cols
          /\ maze = pl.maze
          /\ player = pl.player
          /\ exit = pl.exit
          /\ visible_until = NoReveal(pl.rows, pl.cols)
    /\ pings = <<>>
    /\ last_ping_time = -(NEVER_PINGED * FPS)
    /\ pings_used = 0
    /\ win = FALSE
    /\ now = StartTime
    /\ pc = "tick"
    /\ script = NoScript
    /\ gen = [pc |-> "idle"]
    /\ bfs = [pc |-> "idle"]
    /\ runner = [pc |-> "idle"]
    /\ switcher = [pc |-> "idle"]

\* the end-to-end scenario: the generator overridden by an all-passable
\* 5 x 5 grid, the player started at (0, 0), the exit placed by
\* farthest_floor_from, the keys right x 4 then down x 4
InitE2E ==
    /\ rows = 5
    /\ cols = 5
    /\ maze = [cell \in Cells(5, 5) |-> FALSE]
    /\ player = <<0, 0>>
    /\ exit = farthest_floor_from([cell \in Cells(5, 5) |-> FALSE], 5, 5, 0, 0)
    /\ visible_until = NoReveal(5, 5)
    /\ pings = <<>>
    /\ last_ping_time = -(NEVER_PINGED * FPS)
    /\ pings_used = 0
    /\ win = FALSE
    /\ now = StartTime
    /\ pc = "tick"
    /\ script = [replay |-> TRUE,
                 keys |-> <<"RIGHT", "RIGHT", "RIGHT", "RIGHT",
                            "DOWN", "DOWN", "DOWN", "DOWN">>]
    /\ gen = [pc |-> "idle"]
    /\ bfs = [pc |-> "idle"]
    /\ runner = [pc |-> "idle"]
    /\ switcher = [pc |-> "idle"]

Init == InitGame \/ InitE2E

\* line 320, the frame period drawn from Deltas
ClockTick ==
    /\ pc = "tick"
    /\ ~script.replay
    /\ \E dt \in Deltas :
          /\ now + dt <= MaxTime
          /\ now' = now + dt
    /\ pc' = "events"
    /\ UNCHANGED <<runner, switcher, gen, bfs,
                   maze, rows, cols, player, exit, visible_until, pings,
                   last_ping_time, pings_used, win, script>>

\* line 320 in the scripted scenario: one frame period per scripted key
FrameTick ==
    /\ pc = "tick"
    /\ script.replay
    /\ script.keys # <<>>
    /\ now + 1 <= MaxTime
    /\ now' = now + 1
    /\ pc' = "events"
    /\ UNCHANGED <<runner, switcher, gen, bfs,
                   maze, rows, cols, player, exit, visible_until, pings,
                   last_ping_time, pings_used, win, script>>

\* lines 218-219
KeySpace ==
    /\ pc = "events"
    /\ emit_ping
    /\ UNCHANGED <<runner, switcher, gen, bfs,
                   maze, rows, cols, player, exit, visible_until, win,
                   now, pc, script>>

\* lines 220-221
KeyR ==
    /\ pc = "events"
    /\ ~script.replay
    /\ reset
    /\ UNCHANGED <<runner, switcher, gen, bfs, now, pc, script>>

\* line 322, once the event queue is drained, for every set of pressed keys
HandleInput ==
    /\ pc = "events"
    /\ ~script.replay
    /\ \E keys \in SUBSET Keys : handle_input(keys)
    /\ pc' = "update"
    /\ UNCHANGED <<runner, switcher, gen, bfs,
                   maze, rows, cols, exit, visible_until, pings,
                   last_ping_time, pings_used, win, now, script>>

\* line 322 with the next scripted key pressed
ScriptedInput ==
    /\ pc = "events"
    /\ script.replay
    /\ script.keys # <<>>
    /\ handle_input({Head(script.keys)})
    /\ script' = [script EXCEPT !.keys = Tail(@)]
    /\ pc' = "update"
    /\ UNCHANGED <<runner, switcher, gen, bfs,
                   maze, rows, cols, exit, visible_until, pings,
                   last_ping_time, pings_used, win, now>>

\* line 323
Update ==
    /\ pc = "update"
    /\ update
    /\ pc' = "tick"
    /\ UNCHANGED <<runner, switcher, gen, bfs,
                   maze, rows, cols, player, exit, last_ping_time,
                   pings_used, now, script>>

Next ==
    \/ ClockTick \/ FrameTick \/ KeySpace \/ KeyR
    \/ HandleInput \/ ScriptedInput \/ Update

Spec == Init /\ [][Next]_vars

--------------------------------------------------------------------------
(* One pulse, frame by frame: an emit in the first frame, no key pressed, and
   an update every 1/FPS seconds until the pulse is pruned.  Played on the
   mazes of the game above and on the one-row maze of the source's width. *)

PulseDims == GameDims \cup {<<1, MAZE_COLS>>}

\* lines 103-111 on the one-row maze
CorridorPlacements ==
    UNION {{[rows |-> 1, cols |-> MAZE_COLS, maze |-> m, player |-> p,
             exit |-> farthest_floor_from(m, 1, MAZE_COLS, p[1], p[2])] :
                p \in Floor(m)} :
           m \in generate_maze(MAZE_COLS, 1)}

\* the state after __init__ (lines 92-99) and the first clock.tick
InitPulse ==
    /\ \E pl \in Placements \cup CorridorPlacements :
          /\ rows = pl.rows
          /\ cols = pl.cols
          /\ maze = pl.maze
          /\ player = pl.player
          /\ exit = pl.exit
          /\ visible_until = NoReveal(pl.rows, pl.cols)
    /\ pings = <<>>
    /\ last_ping_time = -(NEVER_PINGED * FPS)
    /\ pings_used = 0
    /\ win = FALSE
    /\ now = StartTime
    /\ pc = "events"
    /\ script = NoScript
    /\ gen = [pc |-> "idle"]
    /\ bfs = [pc |-> "idle"]
    /\ runner = [pc |-> "idle"]
    /\ switcher = [pc |-> "idle"]

\* lines 218-219, Space pressed in the first frame
PulseEmit ==
    /\ pings_used = 0
    /\ KeySpace

\* line 322 with no key pressed
PulseIdle ==
    /\ pc = "events"
    /\ pings_used > 0
    /\ handle_input({})
    /\ pc' = "update"
    /\ UNCHANGED <<runner, switcher, gen, bfs,
                   maze, rows, cols, exit, visible_until, pings,
                   last_ping_time, pings_used, win, now, script>>

\* line 320 at the nominal frame period, while the pulse is active
PulseTick ==
    /\ pc = "tick"
    /\ pings # <<>>
    /\ now' = now + 1
    /\ pc' = "events"
    /\ UNCHANGED <<runner, switcher, gen, bfs,
                   maze, rows, cols, player, exit, visible_until, pings,
                   last_ping_time, pings_used, win, script>>

NextPulse == PulseEmit \/ PulseIdle \/ Update \/ PulseTick

SpecPulse == InitPulse /\ [][NextPulse]_vars

--------------------------------------------------------------------------
(* generate_maze and farthest_floor_from on their own *)

\* the game's fields while no game is running
NoGame ==
    /\ maze = <<>> /\ rows = 0 /\ cols = 0
    /\ player = <<0, 0>> /\ exit = <<0, 0>>
    /\ visible_until = <<>> /\ pings = <<>>
    /\ last_ping_time = 0 /\ pings_used = 0
    /\ win = FALSE /\ now = StartTime /\ pc = "idle"
    /\ script = NoScript

\* generate_maze(cols, rows) after lines 43-50
InitMaze ==
    /\ \E d \in (1 .. MaxGenRows) \X (1 .. MaxGenCols) :
          \E st \in GenStart(d[2], d[1]) :
              gen = [rows |-> d[1], cols |-> d[2], grid |-> st.grid,
                     stack |-> st.stack, pc |-> "loop"]
    /\ bfs = [pc |-> "idle"]
    /\ runner = [pc |-> "idle"]
    /\ switcher = [pc |-> "idle"]
    /\ NoGame

NextMaze == Carve \/ Backtrack \/ GenReturn

SpecMaze == InitMaze /\ [][NextMaze]_vars

\* the while loop runs its next iteration as long as there is one
SpecMazeFair == SpecMaze /\ WF_vars(NextMaze)

\* farthest_floor_from(sr, sc) after lines 127-130, on every grid and every
\* passable start cell
InitBfs ==
    /\ \E d \in Dims(MaxBfsCells) :
          /\ rows = d[1]
          /\ cols = d[2]
          /\ maze \in [Cells(d[1], d[2]) -> BOOLEAN]
    /\ \E s \in Floor(maze) :
          LET st == BfsStart(s[1], s[2])
          IN  bfs = [sr |-> s[1], sc |-> s[2], q |-> st.q, seen |-> st.seen,
                     far |-> st.far, order |-> <<>>, pc |-> "loop"]
    /\ gen = [pc |-> "idle"]
    /\ runner = [pc |-> "idle"]
    /\ switcher = [pc |-> "idle"]
    /\ player = <<0, 0>> /\ exit = <<0, 0>>
    /\ visible_until = <<>> /\ pings = <<>>
    /\ last_ping_time = 0 /\ pings_used = 0
    /\ win = FALSE /\ now = StartTime /\ pc = "idle"
    /\ script = NoScript

\* lines 132-139; order records the cells in the order they are dequeued
BfsDequeue ==
    /\ bfs.pc = "loop"
    /\ bfs.q # <<>>
    /\ LET st == BfsStep(maze, rows, cols, bfs)
           h  == Head(bfs.q)
       IN  bfs' = [bfs EXCEPT !.q = st.q, !.seen = st.seen, !.far = st.far,
                              !.order = Append(@, <<h[1], h[2]>>)]
    /\ UNCHANGED <<gen, gameVars, runner, switcher>>

\* line 140
BfsReturn ==
    /\ bfs.pc = "loop"
    /\ bfs.q = <<>>
    /\ bfs' = [bfs EXCEPT !.pc = "done"]
    /\ UNCHANGED <<gen, gameVars, runner, switcher>>

NextBfs == BfsDequeue \/ BfsReturn

SpecBfs == InitBfs /\ [][NextBfs]_vars

--------------------------------------------------------------------------
(* Shadow Runner (src/shadow-runner.py): one iteration of the main loop per
   step.  Positions are pixels; history is the deque, oldest entry first. *)

WIDTH == 600
HEIGHT == 400
player_size == 20
player_speed == 5
shadow_delay == 30
HISTORY_MAXLEN == 200

OFF_SCREEN == <<-100, -100>>

\* the state before the first iteration (lines 20-37); keys is the last sample
\* of pygame.key.get_pressed
RunnerStart ==
    [pc |-> "run", x |-> WIDTH \div 2, y |-> HEIGHT \div 2, history |-> <<>>,
     shadow |-> OFF_SCREEN, score |-> 0, keys |-> {}]

\* lines 49-52
RunnerMove(x, y, keys) ==
    LET x1 == IF "LEFT" \in keys THEN x - player_speed ELSE x
        x2 == IF "RIGHT" \in keys THEN x1 + player_speed ELSE x1
        y1 == IF "UP" \in keys THEN y - player_speed ELSE y
        y2 == IF "DOWN" \in keys THEN y1 + player_speed ELSE y1
    IN  <<x2, y2>>

\* lines 55-56
KeepInside(p) ==
    <<Max(0, Min(WIDTH - player_size, p[1])),
      Max(0, Min(HEIGHT - player_size, p[2]))>>

\* line 59: append to a deque of maxlen 200
HistoryAppend(h, e) ==
    IF Len(h) >= HISTORY_MAXLEN THEN Append(Tail(h), e) ELSE Append(h, e)

\* line 62
ShadowOf(h) == IF Len(h) >= shadow_delay THEN h[1] ELSE OFF_SCREEN

\* line 69
Collides(p, sh) ==
    Abs(p[1] - sh[1]) < player_size /\ Abs(p[2] - sh[2]) < player_size

\* lines 38-81 with these keys pressed
RunnerFrame(keys) ==
    LET p  == KeepInside(RunnerMove(runner.x, runner.y, keys))
        h  == HistoryAppend(runner.history, p)
        sh == ShadowOf(h)
    IN  runner' = [pc      |-> IF Collides(p, sh) THEN "over" ELSE "run",
                   x       |-> p[1],
                   y       |-> p[2],
                   history |-> h,
                   shadow  |-> sh,
                   score   |-> IF Collides(p, sh) THEN runner.score
                               ELSE runner.score + 1,
                   keys    |-> keys]

\* a frame with any keys pressed
SteerFrame ==
    /\ runner.pc = "run"
    /\ runner.score < SteerFrames
    /\ \E keys \in SUBSET Keys : RunnerFrame(keys)
    /\ UNCHANGED <<gen, bfs, gameVars, switcher>>

\* a frame with the keys of the frame before still pressed
CoastFrame ==
    /\ runner.pc = "run"
    /\ runner.score >= SteerFrames
    /\ runner.score < MaxFrames
    /\ RunnerFrame(runner.keys)
    /\ UNCHANGED <<gen, bfs, gameVars, switcher>>

InitShadow ==
    /\ runner = RunnerStart
    /\ switcher = [pc |-> "idle"]
    /\ gen = [pc |-> "idle"]
    /\ bfs = [pc |-> "idle"]
    /\ NoGame

NextShadow == SteerFrame \/ CoastFrame

SpecShadow == InitShadow /\ [][NextShadow]_vars

--------------------------------------------------------------------------
(* Color Switch Maze (src/Python/Color-switch-maze.py): the KEYDOWN events of
   a frame one by one, then the rest of the frame in one step.  Rectangles
   are records [x, y, w, h], positions <<x, y>> in pixels. *)

switch_player_speed == 4

\* line 27
color_states == <<"RED", "GREEN", "BLUE">>

\* line 23
player_start == <<40, 40>>

\* lines 49-50
reset_player == <<40, 40>>

\* lines 32-38
walls ==
    <<[x |-> 100, y |-> 0,   w |-> 20, h |-> 300, c |-> "RED"],
      [x |-> 200, y |-> 100, w |-> 20, h |-> 300, c |-> "GREEN"],
      [x |-> 300, y |-> 0,   w |-> 20, h |-> 300, c |-> "BLUE"],
      [x |-> 400, y |-> 100, w |-> 20, h |-> 300, c |-> "RED"],
      [x |-> 500, y |-> 0,   w |-> 20, h |-> 300, c |-> "GREEN"]>>

\* line 41
exit_rect == [x |-> WIDTH - 40, y |-> HEIGHT - 40, w |-> 30, h |-> 30]

\* line 74: pygame.Rect(player_x, player_y, player_size, player_size)
PlayerRect(p) == [x |-> p[1], y |-> p[2], w |-> player_size, h |-> player_size]

\* pygame.Rect.colliderect: the rectangles overlap, edges that only touch apart
colliderect(a, b) ==
    /\ a.x < b.x + b.w /\ b.x < a.x + a.w
    /\ a.y < b.y + b.h /\ b.y < a.y + a.h

\* a colour test that takes every wall for a wrong one
WrongColorAlways(player_color, c) == TRUE

\* line 83
WrongColor(player_color, c) == player_color # c

\* lines 80-84 for the walls i .. 5 in order: the position after the loop
RECURSIVE WallLoop(_, _, _, _)
WallLoop(p, rect, player_color, i) ==
    IF i > Len(walls)
    THEN p
    ELSE IF colliderect(rect, walls[i]) /\ WrongColor(player_color, walls[i].c)
         THEN WallLoop(reset_player, rect, player_color, i + 1)
         ELSE WallLoop(p, rect, player_color, i + 1)

\* lines 68-71
SwitchMove(p, keys) ==
    LET x1 == IF "LEFT" \in keys THEN p[1] - switch_player_speed ELSE p[1]
        x2 == IF "RIGHT" \in keys THEN x1 + switch_player_speed ELSE x1
        y1 == IF "UP" \in keys THEN p[2] - switch_player_speed ELSE p[2]
        y2 == IF "DOWN" \in keys THEN y1 + switch_player_speed ELSE y1
    IN  <<x2, y2>>

\* the positions followed: the code itself keeps the player nowhere
InWindow(p) ==
    /\ -SwitchMargin <= p[1] /\ p[1] <= WIDTH - player_size + SwitchMargin
    /\ -SwitchMargin <= p[2] /\ p[2] <= HEIGHT - player_size + SwitchMargin

\* the state before the first frame (lines 21-52); rect is player_rect
SwitchStart ==
    [pc |-> "top", pos |-> player_start, state_index |-> 0,
     player_color |-> color_states[1], rect |-> PlayerRect(player_start)]

\* lines 60-64: a KEYDOWN of Space taken from the event queue
SwitchSpace ==
    /\ switcher.pc \in {"top", "events"}
    /\ LET i == (switcher.state_index + 1) % Len(color_states)
       IN  switcher' = [switcher EXCEPT !.pc = "events",
                                        !.state_index = i,
                                        !.player_color = color_states[i + 1]]
    /\ UNCHANGED <<gen, bfs, gameVars, runner>>

\* lines 66-99, the event queue drained: the keys, player_rect, the walls, the
\* exit
SwitchFrame ==
    /\ switcher.pc \in {"top", "events"}
    /\ \E keys \in SUBSET Keys :
          LET moved == SwitchMove(switcher.pos, keys)
              rect  == PlayerRect(moved)
          IN  /\ InWindow(moved)
              /\ switcher' =
                    [switcher EXCEPT
                       !.pc   = IF colliderect(rect, exit_rect)
                                THEN "won" ELSE "top",
                       !.pos  = WallLoop(moved, rect, switcher.player_color, 1),
                       !.rect = rect]
    /\ UNCHANGED <<gen, bfs, gameVars, runner>>

InitSwitch ==
    /\ switcher = SwitchStart
    /\ runner = [pc |-> "idle"]
    /\ gen = [pc |-> "idle"]
    /\ bfs = [pc |-> "idle"]
    /\ NoGame

NextSwitch == SwitchSpace \/ SwitchFrame

SpecSwitch == InitSwitch /\ [][NextSwitch]_vars

--------------------------------------------------------------------------
(* Distances in a grid, by layers: independent of the queue of the search *)

RECURSIVE DepthFrom(_, _, _, _, _)
DepthFrom(g, frontier, visited, target, k) ==
    IF target \in frontier
    THEN k
    ELSE LET nxt == (UNION {FloorNbrs(g, a) : a \in frontier}) \ visited
         IN  DepthFrom(g, nxt, visited \cup nxt, target, k + 1)

\* the shortest-path distance from a to b, b reachable from a
Depth(g, a, b) == DepthFrom(g, {a}, {a}, b, 0)

\* the passable cells lie in one row or in one column
InLine(g) ==
    \/ \A a \in Floor(g) : \A b \in Floor(g) : a[1] = b[1]
    \/ \A a \in Floor(g) : \A b \in Floor(g) : a[2] = b[2]

--------------------------------------------------------------------------
(* Claims *)

\* C1: every grid generate_maze returns, for every size and every sequence of
\* random choices, is a perfect maze: from any passable cell every passable
\* cell is reachable, and the number of adjacent passable pairs is the number
\* of passable cells minus one.
C1_PerfectMaze ==
    gen.pc = "done" =>
        /\ \A a \in Floor(gen.grid) : Reach(gen.grid, a) = Floor(gen.grid)
        /\ Cardinality(FloorEdges(gen.grid)) = Cardinality(Floor(gen.grid)) - 1

\* a finished 5 x 5 maze: nine cells and the eight walls opened between them
C1_Witness ==
    /\ gen.pc = "done"
    /\ gen.rows = 5 /\ gen.cols = 5
    /\ Cardinality(Floor(gen.grid)) = 17

BfsResult == <<bfs.far[1], bfs.far[2]>>
BfsOrigin == <<bfs.sr, bfs.sc>>
BfsMaxDepth == Depth(maze, BfsOrigin, BfsResult)

\* C2: farthest_floor_from returns a passable cell reachable from the start at
\* the maximum shortest-path distance over the reachable cells, the first such
\* cell in the order the search visits them; the search visits every reachable
\* cell once; on a straight corridor of N cells started at one end the result
\* is the other end, at depth N - 1.
C2_FarthestFirst ==
    bfs.pc = "done" =>
        LET R == Reach(maze, BfsOrigin)
            N == Cardinality(Floor(maze))
        IN  /\ BfsResult \in R
            /\ BfsResult = farthest_floor_from(maze, rows, cols, bfs.sr, bfs.sc)
            /\ \A a \in R : Depth(maze, BfsOrigin, a) <= BfsMaxDepth
            /\ bfs.far[3] = BfsMaxDepth
            /\ Len(bfs.order) = Cardinality(R)
            /\ {bfs.order[i] : i \in 1 .. Len(bfs.order)} = R
            /\ \E i \in 1 .. Len(bfs.order) :
                  /\ bfs.order[i] = BfsResult
                  /\ \A j \in 1 .. i - 1 :
                        Depth(maze, BfsOrigin, bfs.order[j]) < BfsMaxDepth
            /\ (InLine(maze) /\ R = Floor(maze)
                    /\ Cardinality(FloorNbrs(maze, BfsOrigin)) <= 1) =>
                  /\ bfs.far[3] = N - 1
                  /\ Cardinality(FloorNbrs(maze, BfsResult)) <= 1
                  /\ N > 1 => BfsResult # BfsOrigin

\* a finished search with two cells at the maximum depth, two or more steps away
C2_Witness ==
    /\ bfs.pc = "done"
    /\ BfsMaxDepth >= 2
    /\ \E a \in Reach(maze, BfsOrigin) :
          a # BfsResult /\ Depth(maze, BfsOrigin, a) = BfsMaxDepth

\* a finished search along a straight corridor of five cells from one end
C2_CorridorReached ==
    /\ bfs.pc = "done"
    /\ rows = 1 /\ cols = 5 /\ Floor(maze) = Cells(1, 5)
    /\ BfsOrigin = <<0, 0>> /\ BfsResult = <<0, 4>>

Pulses == {pings[i] : i \in 1 .. Len(pings)}

\* C3: an emit appends a pulse exactly when PING_COOLDOWN has passed since
\* the last accepted emit (an emit half a cooldown after an accepted one adds
\* nothing, one two cooldowns after it adds a pulse), last_ping_time is the
\* emission time of the newest pulse, and any two active pulses were emitted at
\* least PING_COOLDOWN apart.
C3_Cooldown ==
    /\ [](\A i \in 1 .. Len(pings) : \A j \in 1 .. Len(pings) :
            i < j => pings[j].t - pings[i].t >= PING_COOLDOWN)
    /\ [](pings # <<>> => last_ping_time = pings[Len(pings)].t)
    /\ [][KeySpace =>
            IF now - last_ping_time >= PING_COOLDOWN
            THEN /\ Len(pings') = Len(pings) + 1
                 /\ SubSeq(pings', 1, Len(pings)) = pings
                 /\ pings'[Len(pings')].t = now
            ELSE pings' = pings]_vars

\* two pulses accepted two cooldowns apart, and nothing accepted in between
C3_Witness ==
    /\ Len(pings) = 2
    /\ pings_used = 2
    /\ pings[2].t - pings[1].t = 2 * PING_COOLDOWN

\* C4: no step other than reset lowers visible_until of any cell.
C4_RevealMonotonic ==
    [][KeyR \/ \A cell \in DOMAIN visible_until :
                  visible_until'[cell] >= visible_until[cell]]_vars

\* after an update, a cell inside the rings of two pulses, revealed until the
\* newer one's reveal ends
C4_Witness ==
    /\ pc = "tick"
    /\ Len(pings) = 2
    /\ \E cell \in Stamped(maze, rows, cols, pings[1], now) :
          /\ cell \in Stamped(maze, rows, cols, pings[2], now)
          /\ visible_until[cell] = pings[2].t + PING_DURATION

\* now - emittedAt > PING_DURATION + PING_MAX_RADIUS / PING_SPEED
TooOld(ping, t) ==
    (t - ping.t) * PING_SPEED * 10 >
        PING_DURATION * PING_SPEED * 10 + PING_MAX_RADIUS10(cols, rows) * FPS

\* C5: update leaves no pulse older than PING_DURATION + PING_MAX_RADIUS /
\* PING_SPEED in the active set and keeps every pulse that is not older; the
\* clock, an emit and a move remove no pulse.
C5_Pruning ==
    [][/\ Update =>
            /\ \A p \in Pulses' : ~TooOld(p, now)
            /\ \A p \in Pulses : ~TooOld(p, now) => p \in Pulses'
       /\ (ClockTick \/ FrameTick \/ KeySpace \/ HandleInput \/ ScriptedInput) =>
            Pulses \subseteq Pulses']_vars

\* after an update, of two accepted pulses the older is gone and the newer kept
C5_Witness ==
    /\ pc = "tick"
    /\ pings_used = 2
    /\ Len(pings) = 1

\* C6: update sets win when it finds the player on the exit cell; win is set by
\* nothing else, stays set under every move, emit and update, and is cleared
\* only by reset; the scripted 5 x 5 scenario (right x 4, down x 4 from (0, 0))
\* ends won on the exit (4, 4).
C6_WinLatch ==
    /\ [][/\ Update => (win' <=> (win \/ player = exit))
          /\ (~win /\ win') => (Update /\ player = exit)
          /\ (win /\ ~win') => KeyR
          /\ KeyR => ~win']_vars
    /\ []((script.replay /\ script.keys = <<>> /\ pc = "tick") =>
             (win /\ player = <<4, 4>> /\ exit = <<4, 4>>))

\* the scripted scenario after its last frame
C6_Witness ==
    /\ script.replay
    /\ script.keys = <<>>
    /\ pc = "tick"
    /\ win

\* C7: the player is always on an in-bounds passable cell of the current maze.
C7_PlayerOnFloor ==
    /\ InBounds(rows, cols, player[1], player[2])
    /\ ~maze[player]

\* in a 3 x 3 maze, the player has just moved onto the exit
C7_Witness ==
    /\ pc = "update"
    /\ rows = 3 /\ cols = 3
    /\ player = exit
    /\ ~win

\* C8: after update, every cell, wall or passable, whose centre lies within
\* radius + 0.7 * CELL of a surviving pulse's origin is revealed at least until
\* that pulse's emission time plus PING_DURATION.
C8_WallsRevealed ==
    pc = "tick" =>
        \A p \in Pulses : \A cell \in Cells(rows, cols) :
            InRing(cell, p, Radius10(now - p.t, cols, rows)) =>
                visible_until[cell] >= p.t + PING_DURATION

\* the squared distance in pixels between a cell's centre and a pulse's origin
Dist2(cell, ping) ==
    LET ctr == cell_center(cell[2], cell[1])
    IN  (ctr[1] - ping.cx) * (ctr[1] - ping.cx)
          + (ctr[2] - ping.cy) * (ctr[2] - ping.cy)

\* (now - t0) * PING_SPEED in tenths of a pixel
Travelled10(ping, t) == ((t - ping.t) * PING_SPEED * 10) \div FPS

SinglePulse ==
    /\ pc = "tick"
    /\ pings_used = 1
    /\ Len(pings) = 1
    /\ now - pings[1].t <= PING_DURATION

\* C9: with a single pulse since the last reset, after an update at most
\* PING_DURATION after its emission, a passable cell within (now - t0) * speed
\* of the origin is visible and a cell farther than that plus 0.7 * CELL is not.
C9_RingReveal ==
    SinglePulse =>
        \A cell \in Cells(rows, cols) :
            LET r10 == Travelled10(pings[1], now)
            IN  /\ (~maze[cell] /\ 100 * Dist2(cell, pings[1]) <= r10 * r10)
                      => IsVisible(cell, now)
                /\ 100 * Dist2(cell, pings[1]) > (r10 + CELL * 7) * (r10 + CELL * 7)
                      => ~IsVisible(cell, now)

\* a growing ring with a cell other than the origin inside it and visible, and
\* a cell beyond the margin not visible
C9_Witness ==
    /\ SinglePulse
    /\ now > pings[1].t
    /\ \E cell \in Floor(maze) :
          /\ Dist2(cell, pings[1]) > 0
          /\ 100 * Dist2(cell, pings[1])
                <= Travelled10(pings[1], now) * Travelled10(pings[1], now)
          /\ IsVisible(cell, now)
    /\ \E cell \in Cells(rows, cols) :
          /\ 100 * Dist2(cell, pings[1])
                > (Travelled10(pings[1], now) + CELL * 7)
                    * (Travelled10(pings[1], now) + CELL * 7)
          /\ ~IsVisible(cell, now)

\* the exit differs from the player's cell unless the maze has one passable cell
ExitApart == exit # player \/ Floor(maze) = {player}

\* C10: reset (the one of the constructor too) places the exit on a passable
\* cell reachable from the player's start and different from it when the maze
\* has more than one passable cell, and no other step changes the exit.
C10_Exit ==
    /\ ExitApart
    /\ [](exit \in Floor(maze) /\ exit \in Reach(maze, player))
    /\ [][/\ KeyR => ExitApart'
          /\ KeyR \/ exit' = exit]_vars

\* in a 3 x 3 maze the player has been on the exit and has moved on
C10_Witness ==
    /\ rows = 3 /\ cols = 3
    /\ win
    /\ player # exit
    /\ exit \in Floor(maze)

\* C11: a regenerate, from every state, installs a generated maze with a player
\* start on a passable cell and the exit farthest_floor_from gives for that
\* start, sets visible_until of every cell to 0.0, empties the pulse list,
\* clears the cooldown and the ping counter and leaves win false; so while no
\* emit has been accepted since the last regenerate there is no pulse and no
\* revealed cell, and no reveal outlasts the last accepted emit's reveal.
C11_Regenerate ==
    /\ [][KeyR =>
            /\ [rows |-> rows', cols |-> cols', maze |-> maze',
                player |-> player', exit |-> exit'] \in Placements
            /\ rows' = rows /\ cols' = cols
            /\ DOMAIN visible_until' = Cells(rows', cols')
            /\ \A cell \in DOMAIN visible_until' : visible_until'[cell] = 0
            /\ pings' = <<>>
            /\ pings_used' = 0
            /\ now - last_ping_time' >= PING_COOLDOWN
            /\ ~win']_vars
    /\ [](pings_used = 0 =>
            pings = <<>> /\ \A cell \in DOMAIN visible_until : ~IsVisible(cell, now))
    /\ [](\A cell \in DOMAIN visible_until :
            visible_until[cell] # 0 =>
                visible_until[cell] <= last_ping_time + PING_DURATION)

\* a 2 x 2 maze, whose one passable cell holds the player and the exit, in a
\* frame after the first and not won: a regenerate has just cleared a win
C11_Witness ==
    /\ pc = "events"
    /\ rows = 2 /\ cols = 2
    /\ now - StartTime > PING_COOLDOWN
    /\ player = exit
    /\ ~win
    /\ pings = <<>>
    /\ pings_used = 0
    /\ visible_until = NoReveal(rows, cols)

\* the passable cells of the whole grid whose centre is within
\* radius + 0.7 * CELL of the pulse's origin
InMargin(m, rws, cls, ping, t) ==
    {cell \in Floor(m) : InRing(cell, ping, Radius10(t - ping.t, cls, rws))}

\* C12: for every active pulse at every time, the passable cells update stamps
\* by scanning the bounding box alone are the passable cells of the whole grid
\* whose centre is within radius + 0.7 * CELL of the origin.
C12_BoxIsOptimisation ==
    \A p \in Pulses :
        Stamped(maze, rows, cols, p, now) = InMargin(maze, rows, cols, p, now)

\* the pixel at the middle of the player's cell
PlayerCentre ==
    [cx |-> player[2] * CELL + CELL \div 2, cy |-> player[1] * CELL + CELL \div 2]

\* C13: an emit requested less than PING_COOLDOWN after the last accepted one
\* changes neither last_ping_time nor pings_used nor the pulses; an accepted
\* emit sets last_ping_time to now, adds one to pings_used and appends one
\* pulse, emitted now from the centre of the player's cell; nothing but an
\* accepted emit and a regenerate (which zeroes it) changes pings_used, so it
\* counts the accepted emits since the last regenerate.
C13_EmitEffect ==
    /\ [][KeySpace =>
            IF now - last_ping_time < PING_COOLDOWN
            THEN /\ last_ping_time' = last_ping_time
                 /\ pings_used' = pings_used
                 /\ pings' = pings
            ELSE /\ last_ping_time' = now
                 /\ pings_used' = pings_used + 1
                 /\ pings' = Append(pings, [cx |-> PlayerCentre.cx,
                                            cy |-> PlayerCentre.cy, t |-> now])]_vars
    /\ [][pings_used' # pings_used => (KeySpace \/ KeyR)]_vars
    /\ [][KeyR => pings_used' = 0]_vars
    /\ [](pings_used >= Len(pings))
    /\ [](pings_used = 0 <=> now - last_ping_time > NEVER_PINGED * FPS)

\* a second pulse just accepted, from another cell than the first, after an
\* emit in between was rejected or none was requested
C13_Witness ==
    /\ pc = "events"
    /\ pings_used = 2
    /\ Len(pings) = 2
    /\ last_ping_time = now
    /\ pings[2] = [cx |-> PlayerCentre.cx, cy |-> PlayerCentre.cy, t |-> now]
    /\ <<pings[1].cx, pings[1].cy>> # <<pings[2].cx, pings[2].cy>>

\* the one cell an input sample with these keys attempts to enter: the vertical
\* neighbour when a vertical key is pressed, else the horizontal one
Attempted(keys) ==
    IF "UP" \in keys THEN <<player[1] - 1, player[2]>>
    ELSE IF "DOWN" \in keys THEN <<player[1] + 1, player[2]>>
    ELSE IF "LEFT" \in keys THEN <<player[1], player[2] - 1>>
    ELSE IF "RIGHT" \in keys THEN <<player[1], player[2] + 1>>
    ELSE player

\* the cell is outside the grid or a wall
Blocked(cell) == cell \notin DOMAIN maze \/ maze[cell]

\* C14: for every set of pressed keys the input sample leaves the player where
\* it is or one cell away along one axis; with a vertical key pressed only the
\* vertical neighbour is attempted, whatever horizontal key is pressed with it
\* and even if that neighbour is blocked; a blocked target leaves the position
\* unchanged; and every input step of the frame loop moves the player so.
C14_OneAxis ==
    /\ [](\A keys \in SUBSET Keys :
            LET t == MoveTarget(maze, rows, cols, player, keys)
            IN  /\ Abs(t[1] - player[1]) + Abs(t[2] - player[2]) <= 1
                /\ t = IF Blocked(Attempted(keys)) THEN player ELSE Attempted(keys)
                /\ ("UP" \in keys \/ "DOWN" \in keys) => t[2] = player[2])
    /\ [][(HandleInput \/ ScriptedInput) =>
            /\ Abs(player'[1] - player[1]) + Abs(player'[2] - player[2]) <= 1
            /\ \E keys \in SUBSET Keys :
                  player' = IF Blocked(Attempted(keys)) THEN player
                            ELSE Attempted(keys)]_vars

\* after an input sample in a 3 x 3 maze, the player below a wall with an open
\* cell to the right: up and right pressed together move nowhere
C14_Witness ==
    /\ pc = "update"
    /\ rows = 3 /\ cols = 3
    /\ <<player[1] - 1, player[2]>> \in DOMAIN maze
    /\ maze[<<player[1] - 1, player[2]>>]
    /\ ~Blocked(<<player[1], player[2] + 1>>)
    /\ MoveTarget(maze, rows, cols, player, {"UP", "RIGHT"}) = player
    /\ MoveTarget(maze, rows, cols, player, {"RIGHT"}) # player

\* the cells with both coordinates even
EvenCells(rws, cls) == EvenIndices(rws) \X EvenIndices(cls)

\* twice the even cells still walls, plus the height of the stack
CarveMeasure(st) ==
    2 * Cardinality({cell \in EvenCells(st.rows, st.cols) : st.grid[cell]})
        + Len(st.stack)

C16_ReachedIsRevealed ==
    [][Update =>
          \A i \in 1 .. Len(pings') :
              \A cell \in Stamped(maze, rows, cols, pings'[i], now) :
                  visible_until[cell] = 0 => visible_until'[cell] >= now]_vars

\* update has run and draw paints the frame
FrameDrawn == pc = "tick" /\ now > StartTime

\* C17: in every frame drawn while the exit cell is not visible
\* (visible_until[exit] < now), draw puts no exit marker on the screen,
\* neither in the main view nor in the mini-map.
C17_ExitGated ==
    (FrameDrawn /\ ~IsVisible(exit, now)) => ~DrawsExitMarker

\* the number of frames run: each frame appends its position to history, which
\* drops nothing before HISTORY_MAXLEN frames, so history[k] is frame k's
RunnerFrames == Len(runner.history)

\* C18: in the frames before the shadow_delay-th the shadow is at
\* (-100, -100), off the screen; in every later frame n it is where the player
\* was recorded shadow_delay frames earlier (frame n - shadow_delay, or frame
\* n - shadow_delay + 1 if the current frame is counted in).
C18_ShadowDelay ==
    (runner.pc # "idle" /\ RunnerFrames >= 1 /\ RunnerFrames < HISTORY_MAXLEN) =>
        /\ RunnerFrames < shadow_delay => runner.shadow = OFF_SCREEN
        /\ RunnerFrames >= shadow_delay =>
              runner.shadow \in
                  {runner.history[k] :
                      k \in {RunnerFrames - shadow_delay,
                             RunnerFrames - shadow_delay + 1} \cap 1 .. RunnerFrames}

\* the rectangle overlaps a wall of another colour than this one
OverlapsWrong(rect, color) ==
    \E i \in 1 .. Len(walls) : colliderect(rect, walls[i]) /\ walls[i].c # color

\* the rectangle overlaps a wall of this colour
OverlapsOwn(rect, color) ==
    \E i \in 1 .. Len(walls) : colliderect(rect, walls[i]) /\ walls[i].c = color

NextColor(color) ==
    IF color = "RED" THEN "GREEN" ELSE IF color = "GREEN" THEN "BLUE" ELSE "RED"

\* the step is SwitchFrame: the one step that ends a frame
FrameEnds == switcher'.pc \in {"top", "won"}

\* the step is SwitchSpace: the one step that leaves the event loop running
SpaceTaken == switcher'.pc = "events"

\* C19: a frame whose player rectangle overlaps a wall of another colour than
\* the player's ends with the player at (40, 40); a frame whose rectangle
\* overlaps a wall of the player's colour ends with the player where its keys
\* moved it, one step at most along each axis; so no frame ends with the
\* player inside a wall of another colour;
\* and a Space event turns RED into GREEN, GREEN into BLUE and BLUE into RED and
\* leaves the position alone.
C19_WrongWallResets ==
    /\ [][FrameEnds =>
            /\ OverlapsWrong(switcher'.rect, switcher.player_color) =>
                  switcher'.pos = <<40, 40>>
            /\ OverlapsOwn(switcher'.rect, switcher.player_color) =>
                  switcher'.pos = <<switcher'.rect.x, switcher'.rect.y>>
            /\ Abs(switcher'.rect.x - switcher.pos[1]) \in {0, switch_player_speed}
            /\ Abs(switcher'.rect.y - switcher.pos[2]) \in {0, switch_player_speed}
            /\ switcher'.player_color = switcher.player_color]_vars
    /\ [][SpaceTaken =>
            /\ switcher'.player_color = NextColor(switcher.player_color)
            /\ switcher'.pos = switcher.pos]_vars
    /\ [](switcher.pc = "top" =>
            ~OverlapsWrong(PlayerRect(switcher.pos), switcher.player_color))
    /\ [](switcher.player_color = color_states[switcher.state_index + 1])

\* the end of a frame in which the player, green, past the red and the green
\* wall, ran into the blue one and is back at the start
C19_Witness ==
    /\ switcher.pc = "top"
    /\ switcher.player_color = "GREEN"
    /\ colliderect(switcher.rect, walls[3])
    /\ switcher.pos = <<40, 40>>

====
